---- MODULE Spec2Model ----
(***************************************************************************)
(* Model of the BentoML IO adapters:                                       *)
(*   - bentoml/_internal/io_descriptors/file.py  (File, BytesIOFile)       *)
(*   - src/bentoml_io/fields.py  (arrow_serialization, TensorSchema,       *)
(*     DataframeSchema, Tensor, Dataframe)                                 *)
(* Python values are modelled as records carrying a "kind" field; bytes    *)
(* are sequences of small naturals; None is the record PyNone.  The two    *)
(* source files share no state, so each is explored by specifications of   *)
(* its own (SpecFile; SpecArrow, SpecTensor, SpecDataframe) over the same  *)
(* variables.                                                              *)
(***************************************************************************)
EXTENDS Integers, Sequences, FiniteSets, TLC

VARIABLES
    \* ---- file.py: one request/response cycle of a File descriptor ----
    fpc,         \* position in the cycle
    descriptor,  \* the File descriptor (result of File(...)), PyNone before
    fnew,        \* the last File(kind, mime_type) call and its outcome
    request,     \* the request handed to from_http_request
    result,      \* what from_http_request returned or raised
    reads,       \* which awaitables of the request were awaited
    response,    \* the starlette Response being built
    obj,         \* the object handed to finalize_http_response
    \* ---- fields.py: the arrow flag and its context manager ----
    in_arrow,    \* __in_arrow_serialization__
    depth,       \* per thread: arrow_serialization() blocks entered and not left
    exc,         \* per thread: the exception currently propagating, or PyNone
    left,        \* whether some arrow_serialization() block has been left
    \* ---- fields.py: Tensor / TensorSchema ----
    annotated,   \* result of Tensor(format, dtype, shape)
    last,        \* the last TensorSchema method call and its outcome
    \* ---- fields.py: Dataframe / DataframeSchema ----
    dfannotated, \* result of Dataframe(orient, columns)
    dflast       \* the last DataframeSchema.encode call and its outcome

fileVars  == <<fpc, descriptor, fnew, request, result, reads, response, obj>>
arrowVars == <<in_arrow, depth, exc, left>>
tensorVars == <<annotated, last>>
dfVars    == <<dfannotated, dflast>>
vars == <<fileVars, arrowVars, tensorVars, dfVars>>

PyNone == [kind |-> "None"]

Min(S) == CHOOSE x \in S : \A y \in S : x <= y

\* All sequences over S of length at most n.
SeqsUpTo(S, n) == UNION {[1..k -> S] : k \in 0..n}

(***************************************************************************)
(* file.py                                                                 *)
(***************************************************************************)

MaxForm == 3  \* most values in a multipart form

MULTIPART == "multipart/form-data"
DEFAULT_MIME == "application/octet-stream"

Mimes == {MULTIPART, DEFAULT_MIME, "application/pdf"}
Kinds == {"binaryio", "textio"}

\* Streams (file objects): the bytes and the read position.
Stream(data, pos) == [data |-> data, pos |-> pos]

\* FileLike(stream, name)
FileLike(stream, name) == [kind |-> "FileLike", file |-> stream, name |-> name]

BentoMLException(msg) == [kind |-> "BentoMLException", msg |-> msg]

\* Form values: plain strings and uploads.  An upload's file name identifies it.
UploadFile(content_type, filename) ==
    [kind |-> "UploadFile", content_type |-> content_type, filename |-> filename,
     file |-> Stream(IF filename = "a.bin" THEN <<1>> ELSE <<2, 3>>, 0)]

FormValues ==
    {[kind |-> "str", value |-> "text"]}
    \cup {UploadFile(m, n) : m \in Mimes, n \in {"a.bin", "b.bin"}}

Forms == SeqsUpTo(FormValues, MaxForm)

\* Content-Type header values, already split at ';' into the type and its options.
Headers ==
    {<<m>> : m \in Mimes \cup {"text/plain"}}
    \cup {<<MULTIPART, "boundary=xyz">>, <<"application/pdf", "charset=utf-8">>}

Bodies == {<<>>, <<7, 8>>}

Requests ==
    [content_type : Headers, form : Forms, body : Bodies]

\* File.__new__(kind, mime_type)
File_new(kind, mime_type) ==
    LET mt == IF mime_type # PyNone THEN mime_type.s ELSE DEFAULT_MIME
    IN IF kind = "binaryio"
       THEN [kind |-> "BytesIOFile", _mime_type |-> mt]
       ELSE [kind |-> "ValueError", msg |-> <<"invalid File kind", kind>>]

\* multipart.parse_options_header: the content type and the options after it.
parse_options_header(header) == <<Head(header), Tail(header)>>

\* The for/else loop over form.values(): state after visiting vals[i..].
RECURSIVE form_loop(_, _, _, _)
form_loop(self, vals, i, found_mimes) ==
    IF i > Len(vals)
    THEN \* else: branch of the loop, no break happened
         IF Len(found_mimes) = 0
         THEN BentoMLException(<<"no File found in multipart form">>)
         ELSE BentoMLException(<<"multipart File should have Content-Type",
                                 self._mime_type,
                                 "got files with content types", found_mimes>>)
    ELSE LET val == vals[i] IN
         IF val.kind = "UploadFile"
         THEN IF val.content_type = self._mime_type
              THEN FileLike(val.file, val.filename)
              ELSE form_loop(self, vals, i + 1, Append(found_mimes, val.content_type))
         ELSE form_loop(self, vals, i + 1, found_mimes)

\* A faulty variant: a multipart request with no matching upload falls through
\* to the raw-body branch.
from_http_request_fallthrough(self, req) ==
    LET content_type == parse_options_header(req.content_type)[1]
        r == form_loop(self, req.form, 1, <<>>)
    IN IF content_type = MULTIPART /\ r.kind = "FileLike"
       THEN [out |-> r, form |-> TRUE, body |-> FALSE]
       ELSE IF content_type = self._mime_type
       THEN [out |-> FileLike(Stream(req.body, 0), "<request body>"),
             form |-> content_type = MULTIPART, body |-> TRUE]
       ELSE [out |-> BentoMLException(<<"File should have Content-Type",
                                        self._mime_type, "or", MULTIPART,
                                        "got", content_type>>),
             form |-> content_type = MULTIPART, body |-> FALSE]

\* A faulty variant: the raw body is accepted whatever its Content-Type.
from_http_request_nocheck(self, req) ==
    LET content_type == parse_options_header(req.content_type)[1]
    IN IF content_type = MULTIPART
       THEN [out |-> form_loop(self, req.form, 1, <<>>),
             form |-> TRUE, body |-> FALSE]
       ELSE [out |-> FileLike(Stream(req.body, 0), "<request body>"),
             form |-> FALSE, body |-> TRUE]

\* BytesIOFile.from_http_request: the value returned or raised, and which of
\* request.form() / request.body() were awaited.
from_http_request(self, req) ==
    LET content_type == parse_options_header(req.content_type)[1]
    IN IF content_type = MULTIPART
       THEN [out |-> form_loop(self, req.form, 1, <<>>),
             form |-> TRUE, body |-> FALSE]
       ELSE IF content_type = self._mime_type
       THEN [out |-> FileLike(Stream(req.body, 0), "<request body>"),
             form |-> FALSE, body |-> TRUE]
       ELSE [out |-> BentoMLException(<<"File should have Content-Type",
                                        self._mime_type, "or", MULTIPART,
                                        "got", content_type>>),
             form |-> FALSE, body |-> FALSE]

\* stream.read(): the bytes from the read position to the end.
read(stream) == SubSeq(stream.data, stream.pos + 1, Len(stream.data))

\* Response(None, media_type=...)
Response(media_type) ==
    [kind |-> "Response", media_type |-> media_type, body |-> <<>>,
     content_length |-> 0]

\* File.init_http_response
init_http_response(self) == Response(self._mime_type)

\* A faulty variant: the file is rewound before it is read.
finalize_http_response_rewind(resp, o) ==
    LET body == IF o.kind = "bytes" THEN o.data ELSE o.file.data
    IN [resp EXCEPT !.body = body, !.content_length = Len(body)]

\* File.finalize_http_response, with set_content_length(response)
finalize_http_response(resp, o) ==
    LET body == IF o.kind = "bytes" THEN o.data ELSE read(o.file)
    IN [resp EXCEPT !.body = body, !.content_length = Len(body)]

\* Objects an API function may return to a File output descriptor.
Bytes(data) == [kind |-> "bytes", data |-> data]

Objs ==
    {Bytes(d) : d \in Bodies}
    \cup {FileLike(Stream(<<4, 5>>, p), "out.bin") : p \in 0..2}

MimeArgs == {PyNone} \cup {[kind |-> "str", s |-> m] : m \in Mimes}

FileInit ==
    /\ fpc = "define"
    /\ descriptor = PyNone
    /\ fnew = PyNone
    /\ request = PyNone
    /\ result = PyNone
    /\ reads = PyNone
    /\ response = PyNone
    /\ obj = PyNone

\* File(kind, mime_type) at service definition time.
FileNew ==
    /\ fpc = "define"
    /\ \E kind \in Kinds, mime_type \in MimeArgs :
         LET r == File_new(kind, mime_type) IN
         /\ fnew' = [kind |-> kind, mime_type |-> mime_type, out |-> r]
         /\ IF r.kind = "BytesIOFile"
            THEN descriptor' = r /\ fpc' = "idle"
            ELSE UNCHANGED <<descriptor, fpc>>
    /\ UNCHANGED <<request, result, reads, response, obj>>
    /\ UNCHANGED <<arrowVars, tensorVars, dfVars>>

\* A request arrives and the input descriptor decodes it.
FromHttpRequest ==
    /\ fpc = "idle"
    /\ \E req \in Requests :
         LET r == from_http_request(descriptor, req) IN
         /\ request' = req
         /\ result' = r.out
         /\ reads' = [form |-> r.form, body |-> r.body]
         /\ fpc' = IF r.out.kind = "FileLike" THEN "parsed" ELSE "failed"
    /\ UNCHANGED <<descriptor, fnew, response, obj>>
    /\ UNCHANGED <<arrowVars, tensorVars, dfVars>>

InitHttpResponse ==
    /\ fpc = "parsed"
    /\ response' = init_http_response(descriptor)
    /\ fpc' = "inited"
    /\ UNCHANGED <<descriptor, fnew, request, result, reads, obj>>
    /\ UNCHANGED <<arrowVars, tensorVars, dfVars>>

\* The API function's return value is written into the response.  The function
\* may return bytes, a file of its own, or the input file itself.
FinalizeHttpResponse ==
    /\ fpc = "inited"
    /\ \E o \in Objs \cup {result} :
         /\ obj' = o
         /\ response' = finalize_http_response(response, o)
    /\ fpc' = "finalized"
    /\ UNCHANGED <<descriptor, fnew, request, result, reads>>
    /\ UNCHANGED <<arrowVars, tensorVars, dfVars>>

\* The cycle ends (response sent, or the exception reported); next request.
FileDone ==
    /\ fpc \in {"failed", "finalized"}
    /\ fpc' = "idle"
    /\ request' = PyNone
    /\ result' = PyNone
    /\ reads' = PyNone
    /\ response' = PyNone
    /\ obj' = PyNone
    /\ UNCHANGED <<descriptor, fnew>>
    /\ UNCHANGED <<arrowVars, tensorVars, dfVars>>

(***************************************************************************)
(* fields.py: tensors of the three libraries                               *)
(***************************************************************************)

MaxDim == 2      \* largest extent of a tensor dimension
NumThreads == 2  \* threads using arrow_serialization()
MaxDepth == 2    \* deepest nesting of arrow_serialization() blocks per thread

Threads == 1..NumThreads

Libs == {"numpy", "tensorflow", "torch"}

RECURSIVE Product(_)
Product(shape) ==
    IF shape = <<>> THEN 1 ELSE Head(shape) * Product(Tail(shape))

\* Strides (in elements) of a row-major (C) and a column-major (F) layout.
CStrides(shape) == [k \in 1..Len(shape) |-> Product(SubSeq(shape, k + 1, Len(shape)))]
FStrides(shape) == [k \in 1..Len(shape) |-> Product(SubSeq(shape, 1, k - 1))]

\* An n-dimensional array of a library: element idx (0-based) lives at
\* buf[1 + sum of idx[k] * strides[k]].
Array(lib, shape, strides, buf, dtype, device) ==
    [kind |-> "tensor", lib |-> lib, shape |-> shape, strides |-> strides,
     buf |-> buf, dtype |-> dtype, device |-> device]

RECURSIVE Offset(_, _)
Offset(idx, strides) ==
    IF idx = <<>> THEN 0
    ELSE Head(idx) * Head(strides) + Offset(Tail(idx), Tail(strides))

Elem(a, idx) == a.buf[1 + Offset(idx, a.strides)]

\* Multi-index of the k-th element (0-based) in row-major order.
RECURSIVE Unravel(_, _)
Unravel(k, shape) ==
    IF shape = <<>> THEN <<>>
    ELSE LET rest == Product(Tail(shape))
         IN <<k \div rest>> \o Unravel(k % rest, Tail(shape))

\* ndarray.flatten(): a new one-dimensional C-ordered copy.
flatten(a) ==
    LET n == Product(a.shape)
    IN [a EXCEPT !.shape = <<n>>, !.strides = <<1>>,
                 !.buf = [k \in 1..n |-> Elem(a, Unravel(k - 1, a.shape))]]

\* Python ints and lists.
PyInt(v) == [kind |-> "int", v |-> v]
PyList(items) == [kind |-> "list", items |-> items]

\* ndarray.tolist(): nested lists, one level per dimension (a bare scalar for
\* a 0-d array).
RECURSIVE tolist_from(_, _)
tolist_from(a, prefix) ==
    IF Len(prefix) = Len(a.shape)
    THEN PyInt(Elem(a, prefix))
    ELSE PyList([i \in 1..a.shape[Len(prefix) + 1] |->
                    tolist_from(a, Append(prefix, i - 1))])

tolist(a) == tolist_from(a, <<>>)

\* tf.Tensor.numpy() / torch.Tensor.numpy(): the same elements as an ndarray.
numpy(a) == [a EXCEPT !.lib = "numpy"]

\* torch.Tensor.cpu()
cpu(a) == [a EXCEPT !.device = "cpu"]

Shapes ==
    {<<>>} \cup {<<n>> : n \in 0..MaxDim}
    \cup {<<r, c>> : r \in 1..MaxDim, c \in 1..MaxDim}

\* Tensors of a library.  The buffer holds 1, 2, ... so that every element is
\* recognisable; torch and numpy arrays may be column-major views, and torch
\* tensors may live on an accelerator.
Layouts(lib, shape) ==
    {CStrides(shape)} \cup (IF lib = "tensorflow" THEN {} ELSE {FStrides(shape)})

Devices(lib) == {"cpu"} \cup (IF lib = "torch" THEN {"cuda"} ELSE {})

TensorsOf(lib) ==
    UNION {{Array(lib, sh, st, [k \in 1..Product(sh) |-> k], PyNone, dev) :
               st \in Layouts(lib, sh), dev \in Devices(lib)} : sh \in Shapes}

Tensors == [lib \in Libs |-> TensorsOf(lib)]

(***************************************************************************)
(* fields.py: TensorSchema and Tensor                                      *)
(***************************************************************************)

Formats == {"numpy-array", "tf-tensor", "torch-tensor", "jax-array"}

Str(s) == [kind |-> "str", s |-> s]
Tuple(v) == [kind |-> "tuple", v |-> v]

DtypeArgs == {PyNone, Str("int32"), Str("float32")}
ShapeArgs == {PyNone} \cup {Tuple(sh) : sh \in {<<MaxDim>>, <<1, MaxDim>>, <<MaxDim, MaxDim>>}}

TensorSchema(format, dtype, shape) ==
    [kind |-> "TensorSchema", format |-> format, dtype |-> dtype, shape |-> shape]

\* Tensor(format, dtype, shape): t.Annotated[annotation, TensorSchema(...)]
Tensor(format, dtype, shape) ==
    LET annotation ==
          IF format = "numpy-array" THEN [lib |-> "numpy", type |-> "ndarray"]
          ELSE IF format = "torch-tensor" THEN [lib |-> "torch", type |-> "Tensor"]
          ELSE [lib |-> "tensorflow", type |-> "Tensor"]
    IN [kind |-> "Annotated", annotation |-> annotation,
        schema |-> TensorSchema(format, dtype, shape)]

\* A faulty variant: the array is never flattened.
TensorSchema_encode_noflatten(self, arr, flag) ==
    LET numpy_array ==
          IF self.format = "numpy-array" THEN arr
          ELSE IF self.format = "tf-tensor" THEN numpy(arr)
          ELSE numpy(cpu(arr))
    IN [lib |-> IF self.format = "numpy-array" THEN "numpy"
                ELSE IF self.format = "tf-tensor" THEN "tensorflow" ELSE "torch",
        out |-> tolist(numpy_array), arr |-> arr]

\* TensorSchema.encode, reading __in_arrow_serialization__ as `flag`: the
\* library whose conversion is used, the list returned, and arr afterwards.
TensorSchema_encode(self, arr, flag) ==
    LET numpy_array ==
          IF self.format = "numpy-array" THEN arr
          ELSE IF self.format = "tf-tensor" THEN numpy(arr)
          ELSE numpy(cpu(arr))
        final == IF flag THEN flatten(numpy_array) ELSE numpy_array
    IN [lib |-> IF self.format = "numpy-array" THEN "numpy"
                ELSE IF self.format = "tf-tensor" THEN "tensorflow" ELSE "torch",
        out |-> tolist(final), arr |-> arr]

\* TensorSchema.framework_dtype: getattr(<library>, dtype), or None.
TensorSchema_framework_dtype(self) ==
    IF self.dtype = PyNone
    THEN [lib |-> "none", out |-> PyNone]
    ELSE LET lib == IF self.format = "numpy-array" THEN "numpy"
                    ELSE IF self.format = "tf-tensor" THEN "tensorflow" ELSE "torch"
         IN [lib |-> lib, out |-> [kind |-> "dtype", lib |-> lib, name |-> self.dtype.s]]

\* Python lists handed to _validate: flat, or a list of equally long rows.
PyLists ==
    {PyList([i \in 1..n |-> PyInt(i)]) : n \in 0..MaxDim}
    \cup {PyList([i \in 1..r |-> PyList([j \in 1..c |-> PyInt((i - 1) * c + j)])]) :
            r \in 1..MaxDim, c \in 1..MaxDim}

\* The shape a library infers from a (rectangular) nested list.
RECURSIVE list_shape(_)
list_shape(o) ==
    IF o.kind = "int" THEN <<>>
    ELSE IF Len(o.items) = 0 THEN <<0>>
    ELSE <<Len(o.items)>> \o list_shape(o.items[1])

\* The scalars of a nested list, in order.
RECURSIVE list_scalars(_)
list_scalars(o) ==
    IF o.kind = "int" THEN <<o.v>>
    ELSE IF Len(o.items) = 0 THEN <<>>
    ELSE list_scalars(o.items[1])
         \o list_scalars(PyList(Tail(o.items)))

\* np.array(obj) / tf.constant(obj) / torch.tensor(obj): a C-ordered array.
from_list(lib, o, dtype) ==
    LET shape == list_shape(o)
    IN Array(lib, shape, CStrides(shape), list_scalars(o), dtype, "cpu")

\* reshape(shape): the same elements in row-major order under a new shape;
\* the library raises when the sizes differ.
reshape(a, shape) ==
    IF Product(shape) # Product(a.shape)
    THEN [kind |-> "Error", lib |-> a.lib]
    ELSE [flatten(a) EXCEPT !.shape = shape, !.strides = CStrides(shape)]

\* TensorSchema._validate
TensorSchema_validate(self, o) ==
    LET dtype == TensorSchema_framework_dtype(self).out
        lib == IF self.format = "numpy-array" THEN "numpy"
               ELSE IF self.format = "tf-tensor" THEN "tensorflow" ELSE "torch"
        arr == from_list(lib, o, dtype)
    IN [lib |-> lib,
        out |-> IF self.shape # PyNone THEN reshape(arr, self.shape.v) ELSE arr]

(***************************************************************************)
(* fields.py: the arrow flag                                               *)
(***************************************************************************)

Exceptions == {[kind |-> "ValueError"], [kind |-> "KeyError"]}

ArrowInit ==
    /\ in_arrow = FALSE
    /\ depth = [t \in Threads |-> 0]
    /\ exc = [t \in Threads |-> PyNone]
    /\ left = FALSE

\* with arrow_serialization(): entry, up to the yield.
Enter(t) ==
    /\ exc[t] = PyNone
    /\ depth[t] < MaxDepth
    /\ in_arrow' = TRUE
    /\ depth' = [depth EXCEPT ![t] = @ + 1]
    /\ UNCHANGED <<exc, left>>
    /\ UNCHANGED <<fileVars, tensorVars, dfVars>>

\* The body of the innermost block of t completes; the finally clause runs.
ExitNormal(t) ==
    /\ exc[t] = PyNone
    /\ depth[t] > 0
    /\ in_arrow' = FALSE
    /\ depth' = [depth EXCEPT ![t] = @ - 1]
    /\ left' = TRUE
    /\ UNCHANGED exc
    /\ UNCHANGED <<fileVars, tensorVars, dfVars>>

\* Code inside a block of t raises.
Raise(t) ==
    /\ exc[t] = PyNone
    /\ depth[t] > 0
    /\ \E e \in Exceptions : exc' = [exc EXCEPT ![t] = e]
    /\ UNCHANGED <<in_arrow, depth, left>>
    /\ UNCHANGED <<fileVars, tensorVars, dfVars>>

\* A faulty variant: no try/finally, the flag stays set when the body raises.
ExitRaise_nofinally(t) ==
    /\ exc[t] # PyNone
    /\ depth[t] > 0
    /\ depth' = [depth EXCEPT ![t] = @ - 1]
    /\ left' = TRUE
    /\ UNCHANGED <<in_arrow, exc>>
    /\ UNCHANGED <<fileVars, tensorVars, dfVars>>

\* The exception reaches the innermost block of t: the finally clause runs and
\* the exception goes on propagating.
ExitRaise(t) ==
    /\ exc[t] # PyNone
    /\ depth[t] > 0
    /\ in_arrow' = FALSE
    /\ depth' = [depth EXCEPT ![t] = @ - 1]
    /\ left' = TRUE
    /\ UNCHANGED exc
    /\ UNCHANGED <<fileVars, tensorVars, dfVars>>

\* An except clause of t (inside or outside the blocks) handles the exception.
Catch(t) ==
    /\ exc[t] # PyNone
    /\ exc' = [exc EXCEPT ![t] = PyNone]
    /\ UNCHANGED <<in_arrow, depth, left>>
    /\ UNCHANGED <<fileVars, tensorVars, dfVars>>

TensorInit == annotated = PyNone /\ last = PyNone

\* Tensor(format, dtype, shape)
TensorNew ==
    /\ \E format \in Formats, dtype \in DtypeArgs, shape \in ShapeArgs :
         annotated' = Tensor(format, dtype, shape)
    /\ last' = PyNone
    /\ UNCHANGED <<fileVars, arrowVars, dfVars>>

\* TensorSchema.encode of a schema of each format, tabulated over the tensors.
EncodeTable ==
    [format \in Formats |-> [flag \in BOOLEAN |->
        [arr \in UNION {Tensors[lib] : lib \in Libs} |->
            TensorSchema_encode(TensorSchema(format, PyNone, PyNone), arr, flag)]]]

\* Some running thread serializes a field value: a tensor of the library whose
\* conversion the schema's format selects, of the schema's shape if it has one.
Encode ==
    /\ annotated # PyNone
    /\ \E t \in Threads : exc[t] = PyNone
    /\ \E lib \in Libs : \E arr \in Tensors[lib] :
         LET r == EncodeTable[annotated.schema.format][in_arrow][arr]
         IN /\ arr.lib = r.lib
            /\ annotated.schema.shape # PyNone => arr.shape = annotated.schema.shape.v
            /\ last' = [kind |-> "call", op |-> "encode", arg |-> arr,
                        flag |-> in_arrow, left |-> left, lib |-> r.lib,
                        out |-> r.out, arg_after |-> r.arr]
    /\ UNCHANGED annotated
    /\ UNCHANGED <<fileVars, arrowVars, dfVars>>

FrameworkDtype ==
    /\ annotated # PyNone
    /\ LET r == TensorSchema_framework_dtype(annotated.schema)
       IN last' = [kind |-> "call", op |-> "framework_dtype", lib |-> r.lib, out |-> r.out]
    /\ UNCHANGED annotated
    /\ UNCHANGED <<fileVars, arrowVars, dfVars>>

Validate ==
    /\ annotated # PyNone
    /\ \E o \in PyLists :
         LET r == TensorSchema_validate(annotated.schema, o)
         IN last' = [kind |-> "call", op |-> "_validate", arg |-> o, lib |-> r.lib, out |-> r.out]
    /\ UNCHANGED annotated
    /\ UNCHANGED <<fileVars, arrowVars, dfVars>>

(***************************************************************************)
(* fields.py: DataframeSchema and Dataframe                                *)
(***************************************************************************)

MaxRows == 2  \* most rows of a dataframe

ColumnLists == {<<>>, <<"a">>, <<"b">>, <<"a", "b">>, <<"b", "a">>}

\* A pandas DataFrame: the column labels and the rows of cell values.
DataFrame(columns, values) ==
    [kind |-> "DataFrame", columns |-> columns, values |-> values]

DataFrames ==
    UNION {{DataFrame(cols, vals) :
               vals \in SeqsUpTo([1..Len(cols) -> {0, 1}], MaxRows)} :
           cols \in ColumnLists}

Range(f) == {f[x] : x \in DOMAIN f}

\* Position of a label in the column labels.
ColumnIndex(df, c) == CHOOSE k \in 1..Len(df.columns) : df.columns[k] = c

PyDict(v) == [kind |-> "dict", v |-> v]

\* DataFrame.to_dict(orient="records"): one {column: value} dict per row.
to_dict_records(df) ==
    PyList([i \in 1..Len(df.values) |->
              PyDict([c \in Range(df.columns) |-> df.values[i][ColumnIndex(df, c)]])])

\* DataFrame.to_dict(orient="list"): {column: [values]}.
to_dict_list(df) ==
    PyDict([c \in Range(df.columns) |->
              PyList([i \in 1..Len(df.values) |-> df.values[i][ColumnIndex(df, c)]])])

Orients == {"records", "columns", "split", "index"}
ColumnArgs == {PyNone, PyList(<<"a">>), PyList(<<"a", "b">>)}

DataframeSchema(orient, columns) ==
    [kind |-> "DataframeSchema", orient |-> orient, columns |-> columns]

\* Dataframe(orient, columns): t.Annotated[pd.DataFrame, DataframeSchema(...)]
Dataframe(orient, columns) ==
    [kind |-> "Annotated", annotation |-> [lib |-> "pandas", type |-> "DataFrame"],
     schema |-> DataframeSchema(orient, columns)]

\* A faulty variant: every orient other than "records" is treated as "columns".
DataframeSchema_encode_noraise(self, df) ==
    IF self.orient = "records"
    THEN to_dict_records(df)
    ELSE to_dict_list(df)

\* DataframeSchema.encode
DataframeSchema_encode(self, df) ==
    IF self.orient = "records"
    THEN to_dict_records(df)
    ELSE IF self.orient = "columns"
    THEN to_dict_list(df)
    ELSE [kind |-> "ValueError",
          msg |-> "Only 'records' and 'columns' are supported for orient"]

DfInit == dfannotated = PyNone /\ dflast = PyNone

DataframeNew ==
    /\ \E orient \in Orients, columns \in ColumnArgs :
         dfannotated' = Dataframe(orient, columns)
    /\ dflast' = PyNone
    /\ UNCHANGED <<fileVars, arrowVars, tensorVars>>

DfEncode ==
    /\ dfannotated # PyNone
    /\ \E df \in DataFrames :
         dflast' = [kind |-> "call", op |-> "encode", self |-> dfannotated.schema,
                    arg |-> df, out |-> DataframeSchema_encode(dfannotated.schema, df)]
    /\ UNCHANGED dfannotated
    /\ UNCHANGED <<fileVars, arrowVars, tensorVars>>

(***************************************************************************)
(* Properties of file.py                                                   *)
(***************************************************************************)

\* from_http_request has run on `request` in the current cycle.
Handled == fpc \in {"parsed", "failed", "inited", "finalized"}

ParsedType(req) == parse_options_header(req.content_type)[1]

IsUpload(v) == v.kind = "UploadFile"

\* Content types of all uploads of a form, in form order.
UploadTypes(form) ==
    LET ups == SelectSeq(form, IsUpload)
    IN [i \in 1..Len(ups) |-> ups[i].content_type]

\* Positions of the uploads whose content type is `mime`.
Matching(form, mime) ==
    {i \in 1..Len(form) : IsUpload(form[i]) /\ form[i].content_type = mime}

C2_RawBodyIffTypeMatches ==
    (Handled /\ ParsedType(request) # MULTIPART) =>
        /\ (result.kind = "FileLike") <=> (ParsedType(request) = descriptor._mime_type)
        /\ (ParsedType(request) = descriptor._mime_type) =>
               /\ result.name = "<request body>"
               /\ result.file = Stream(request.body, 0)
               /\ reads.form = FALSE
        /\ (ParsedType(request) # descriptor._mime_type) =>
               /\ result = BentoMLException(
                             <<"File should have Content-Type", descriptor._mime_type,
                               "or", MULTIPART, "got", ParsedType(request)>>)
               /\ reads = [form |-> FALSE, body |-> FALSE]

\* C2 witness: a rejected raw-body request whose form holds a matching upload.
C2_Witness ==
    /\ Handled /\ ParsedType(request) = "text/plain"
    /\ request.body = <<7, 8>>
    /\ Matching(request.form, descriptor._mime_type) # {}
    /\ result.kind = "BentoMLException"

\* C3: a File built with kind "binaryio" answers with the media type given at
\* construction ("application/octet-stream" when none is given) and, after
\* finalize_http_response(response, obj), with body obj when obj is bytes and
\* otherwise the bytes obj.read() returns; any other kind raises ValueError
\* and yields no descriptor.
C3_OutputSide ==
    /\ fnew # PyNone =>
          IF fnew.kind = "binaryio"
          THEN /\ descriptor = fnew.out
               /\ descriptor.kind = "BytesIOFile"
               /\ descriptor._mime_type =
                     (IF fnew.mime_type = PyNone
                      THEN "application/octet-stream" ELSE fnew.mime_type.s)
          ELSE fnew.out.kind = "ValueError" /\ descriptor = PyNone
    /\ fpc \in {"inited", "finalized"} =>
          response.media_type =
             (IF fnew.mime_type = PyNone
              THEN "application/octet-stream" ELSE fnew.mime_type.s)
    /\ fpc = "finalized" =>
          response.body =
             (IF obj.kind = "bytes"
              THEN obj.data
              ELSE [i \in 1..(Len(obj.file.data) - obj.file.pos) |->
                       obj.file.data[obj.file.pos + i]])

\* C3 witness: default media type, and a file object read from the middle.
C3_Witness ==
    /\ fpc = "finalized"
    /\ fnew.mime_type = PyNone
    /\ obj.kind = "FileLike" /\ obj.file.pos = 1
    /\ response.body = <<5>>

(***************************************************************************)
(* Properties of fields.py                                                 *)
(***************************************************************************)

\* C4: the flag is True exactly while at least one arrow_serialization()
\* block is active, nested blocks and blocks of other threads included.
C4_FlagTrueWhileActive ==
    in_arrow <=> (\E t \in Threads : depth[t] > 0)

IsCall(rec, op) == rec.kind = "call" /\ rec.op = op

\* C5: encode with orient "records" returns one {column: value} dict per row,
\* with orient "columns" a dict from each column to the list of its values,
\* and raises ValueError for every other orient.
C5_EncodeOrients ==
    IsCall(dflast, "encode") =>
        LET df == dflast.arg
            out == dflast.out
            ncols == Len(df.columns)
            nrows == Len(df.values)
            names == {df.columns[k] : k \in 1..ncols}
        IN IF dflast.self.orient = "records"
           THEN /\ out.kind = "list"
                /\ Len(out.items) = nrows
                /\ \A i \in 1..nrows :
                     /\ out.items[i].kind = "dict"
                     /\ DOMAIN out.items[i].v = names
                     /\ \A k \in 1..ncols :
                          out.items[i].v[df.columns[k]] = df.values[i][k]
           ELSE IF dflast.self.orient = "columns"
           THEN /\ out.kind = "dict"
                /\ DOMAIN out.v = names
                /\ \A k \in 1..ncols :
                     /\ out.v[df.columns[k]].kind = "list"
                     /\ Len(out.v[df.columns[k]].items) = nrows
                     /\ \A i \in 1..nrows :
                          out.v[df.columns[k]].items[i] = df.values[i][k]
           ELSE out.kind = "ValueError"

\* C5 witness: a two-column, two-row frame encoded by columns, with the
\* columns in other than alphabetical order.
C5_Witness ==
    /\ IsCall(dflast, "encode")
    /\ dflast.self.orient = "columns"
    /\ dflast.arg.columns = <<"b", "a">>
    /\ dflast.arg.values = <<<<0, 1>>, <<1, 1>>>>
    /\ dflast.out.kind = "dict"
    /\ dflast.out.v["a"] = PyList(<<1, 1>>)

\* C6: for every format string the library of the type Tensor() puts in the
\* annotation is the library the attached TensorSchema uses in _validate, in
\* encode and in framework_dtype.
C6_OneLibraryPerFormat ==
    (last.kind = "call" /\ last.lib # "none") =>
        last.lib = annotated.annotation.lib

\* Row-major sequence of the elements of a tensor of at most two dimensions.
RowMajor(a) ==
    IF Len(a.shape) = 0 THEN <<Elem(a, <<>>)>>
    ELSE IF Len(a.shape) = 1 THEN [k \in 1..a.shape[1] |-> Elem(a, <<k - 1>>)]
    ELSE [k \in 1..(a.shape[1] * a.shape[2]) |->
            Elem(a, <<(k - 1) \div a.shape[2], (k - 1) % a.shape[2]>>)]

\* The list is flat: every item is a scalar.
IsFlatList(o) ==
    /\ o.kind = "list"
    /\ \A i \in 1..Len(o.items) : o.items[i].kind = "int"

\* The list is nested as the shape says, level by level.
RECURSIVE NestedAs(_, _)
NestedAs(o, shape) ==
    IF shape = <<>> THEN o.kind = "int"
    ELSE /\ o.kind = "list"
         /\ Len(o.items) = Head(shape)
         /\ \A i \in 1..Len(o.items) : NestedAs(o.items[i], Tail(shape))

\* C7: encode returns, when the flag is True, a flat list of all elements of
\* the tensor in row-major order and, when it is False, the list nested as
\* the tensor's shape; either way the scalars are the tensor's elements in
\* row-major order and the tensor is left unmodified.
C7_EncodeFlattensUnderArrow ==
    IsCall(last, "encode") =>
        /\ last.arg_after = last.arg
        /\ list_scalars(last.out) = RowMajor(last.arg)
        /\ IF last.flag
           THEN IsFlatList(last.out)
           ELSE NestedAs(last.out, last.arg.shape)

\* C7 witness: a column-major two-dimensional torch tensor on an accelerator,
\* encoded while the flag is True.
C7_Witness ==
    /\ IsCall(last, "encode")
    /\ last.flag
    /\ last.arg.lib = "torch" /\ last.arg.device = "cuda"
    /\ last.arg.shape = <<MaxDim, MaxDim>>
    /\ last.arg.strides = <<1, MaxDim>>
    /\ Len(last.out.items) = MaxDim * MaxDim
    /\ last.out.items[2] = PyInt(1 + MaxDim)

InitFile == FileInit /\ ArrowInit /\ TensorInit /\ DfInit

NextFile ==
    \/ FileNew
    \/ FromHttpRequest
    \/ InitHttpResponse
    \/ FinalizeHttpResponse
    \/ FileDone

SpecFile == InitFile /\ [][NextFile]_vars

\* The arrow flag under threads; the schema in use was built beforehand.
InitArrow ==
    /\ FileInit /\ ArrowInit /\ DfInit
    /\ \E format \in Formats :
         annotated = Tensor(format, PyNone, Tuple(<<MaxDim, MaxDim>>))
    /\ last = PyNone

NextArrow ==
    \/ \E t \in Threads : Enter(t)
    \/ \E t \in Threads : ExitNormal(t)
    \/ \E t \in Threads : Raise(t)
    \/ \E t \in Threads : ExitRaise(t)
    \/ \E t \in Threads : Catch(t)
    \/ Encode

SpecArrow == InitArrow /\ [][NextArrow]_vars

\* Tensor() and the methods of the TensorSchema it attaches, run by thread 1
\* either outside or inside an arrow_serialization() block.
InitTensor ==
    /\ FileInit /\ TensorInit /\ DfInit
    /\ in_arrow \in BOOLEAN
    /\ depth = [t \in Threads |-> IF in_arrow /\ t = 1 THEN 1 ELSE 0]
    /\ exc = [t \in Threads |-> PyNone]
    /\ left = FALSE

NextTensor ==
    \/ TensorNew
    \/ Validate
    \/ FrameworkDtype
    \/ Encode

SpecTensor == InitTensor /\ [][NextTensor]_vars

\* Dataframe() and the encode method of the DataframeSchema it attaches.
InitDataframe == FileInit /\ ArrowInit /\ TensorInit /\ DfInit

NextDataframe ==
    \/ DataframeNew
    \/ DfEncode

SpecDataframe == InitDataframe /\ [][NextDataframe]_vars

====
